---- MODULE Spec2Model ----
(***************************************************************************)
(* Model of src/schedulability_checker.py: the GFB and BCL sufficient      *)
(* schedulability tests for global EDF and the combined verdict printed    *)
(* by check_gfb_schedulability.                                            *)
(*                                                                         *)
(* Numbers.  Python computes the utilizations, the beta values and the     *)
(* bounds with true division on the integers of the taskset file.  They    *)
(* are modelled as exact rationals <<n, d>> in lowest terms with d > 0.    *)
(* With every runtime, period and deadline in 0..2 all quotients are       *)
(* dyadic, so the floating point results of the program are exact too.     *)
(*                                                                         *)
(* A field of a task that the file may omit is a sequence of length at     *)
(* most one: <<>> is Python's None, <<v>> the value v.  The cpus field is  *)
(* the length of the task's cpus list (0: missing or empty list).          *)
(***************************************************************************)
EXTENDS Integers, Sequences, FiniteSets, TLC

VARIABLES taskset_file, pc, tasks, num_cpus, i, task_utilizations, gfb,
          k, task_results, all_schedulable, bcl, out, pending

vars == <<taskset_file, pc, tasks, num_cpus, i, task_utilizations, gfb,
          k, task_results, all_schedulable, bcl, out, pending>>

(* ------------------------------ bounds -------------------------------- *)
MaxTasks == 3
MaxRuntime == 2
MaxPeriod == 2
MaxDeadline == 2
MaxCpus == 2
MaxAffinityTasks == 2
MaxSignedTasks == 2
MaxNegative == 1
MaxScenarioTasks == 4
MaxWorkerTasks == 3

(* --------------------------- exact rationals -------------------------- *)
Abs(x) == IF x < 0 THEN 0 - x ELSE x

RECURSIVE Gcd(_, _)
Gcd(a, b) == IF b = 0 THEN a ELSE Gcd(b, a % b)

\* n / d for d # 0, in lowest terms with a positive denominator
Rat(n, d) ==
    LET s == IF d < 0 THEN 0 - 1 ELSE 1
        g == Gcd(Abs(n), Abs(d))
    IN  <<(s * n) \div g, (s * d) \div g>>

RInt(n) == <<n, 1>>
RAdd(a, b) == Rat(a[1] * b[2] + b[1] * a[2], a[2] * b[2])
RSub(a, b) == Rat(a[1] * b[2] - b[1] * a[2], a[2] * b[2])
RMul(a, b) == Rat(a[1] * b[1], a[2] * b[2])
RLess(a, b) == a[1] * b[2] < b[1] * a[2]
RLeq(a, b) == a[1] * b[2] <= b[1] * a[2]
RMin(a, b) == IF RLess(b, a) THEN b ELSE a
RMax(a, b) == IF RLess(a, b) THEN b ELSE a

\* math.floor(a / b) for integers a, b with b # 0
FloorDiv(a, b) == IF b > 0 THEN a \div b ELSE (0 - a) \div (0 - b)

IMin(a, b) == IF b < a THEN b ELSE a
IMax(a, b) == IF a < b THEN b ELSE a

(* ------------------------------ taskset ------------------------------- *)
Missing == <<>>

Opt(S) == {Missing} \cup {<<v>> : v \in S}

\* the fields of one entry of the "tasks" dictionary, without its key
Fields(cpus) ==
    [runtime : Opt(1..MaxRuntime),
     period : Opt(0..MaxPeriod),
     deadline : Opt(0..MaxDeadline),
     cpus : cpus]

\* the dictionary with the keys 1..n in insertion order; name is the key
RECURSIVE TaskDict(_, _)
TaskDict(f, n) ==
    IF n = 0 THEN <<>>
    ELSE Append(TaskDict(f, n - 1),
                [name |-> n, runtime |-> f[n].runtime, period |-> f[n].period,
                 deadline |-> f[n].deadline, cpus |-> f[n].cpus])

\* GetDeadline without the default
GetDeadlineNoDefault(params) ==
    params.deadline

\* params.get("dl-deadline", period)
GetDeadline(params) ==
    IF params.deadline = Missing THEN params.period ELSE params.deadline


(* ------------------- check_bcl_schedulability ------------------------- *)
\* the two "continue" tests on a task's parameters (lines 48-52 and 69-73)
BCLSkips(params) ==
    LET runtime == params.runtime
        period == params.period
        deadline == GetDeadline(params)
    IN  \/ runtime = Missing \/ period = Missing \/ deadline = Missing
        \/ period[1] = 0 \/ deadline[1] = 0

\* beta_i of the task other_params within a window of length deadline
BetaI(deadline, other_params) ==
    LET other_runtime == other_params.runtime[1]
        other_period == other_params.period[1]
        Ni == FloorDiv(deadline, other_period)
        remaining_time == IMax(0, deadline - Ni * other_period)
    IN  Rat(Ni * other_runtime + IMin(other_runtime, remaining_time), deadline)

\* InnerBody with "beta_sum = ..." in place of "beta_sum += ..."
InnerBodyAssign(acc, task_name, lambda_k, deadline, other_params) ==
    IF other_params.name = task_name THEN acc
    ELSE IF BCLSkips(other_params) THEN acc
    ELSE LET beta_i == BetaI(deadline, other_params)
         IN  [beta_sum |-> RMin(beta_i, RSub(RInt(1), lambda_k)),
              beta_details |-> (other_params.name :> beta_i) @@ acc.beta_details]

\* InnerBody without the test "other_name == task_name"
InnerBodyWithSelf(acc, task_name, lambda_k, deadline, other_params) ==
    IF BCLSkips(other_params) THEN acc
    ELSE LET beta_i == BetaI(deadline, other_params)
         IN  [beta_sum |-> RAdd(acc.beta_sum, RMin(beta_i, RSub(RInt(1), lambda_k))),
              beta_details |-> (other_params.name :> beta_i) @@ acc.beta_details]

\* one iteration of the inner loop over the other tasks
InnerBody(acc, task_name, lambda_k, deadline, other_params) ==
    IF other_params.name = task_name THEN acc
    ELSE IF BCLSkips(other_params) THEN acc
    ELSE LET beta_i == BetaI(deadline, other_params)
         IN  [beta_sum |-> RAdd(acc.beta_sum, RMin(beta_i, RSub(RInt(1), lambda_k))),
              beta_details |-> (other_params.name :> beta_i) @@ acc.beta_details]

\* the inner loop from its j-th iteration on
RECURSIVE InnerLoop(_, _, _, _, _, _)
InnerLoop(ts, j, acc, task_name, lambda_k, deadline) ==
    IF j > Len(ts) THEN acc
    ELSE InnerLoop(ts, j + 1, InnerBody(acc, task_name, lambda_k, deadline, ts[j]),
                   task_name, lambda_k, deadline)

\* any(0 < beta <= 1 - lambda_k for beta in beta_details.values())
AnyBeta(beta_details, lambda_k) ==
    \E n \in DOMAIN beta_details :
        /\ RLess(RInt(0), beta_details[n])
        /\ RLeq(beta_details[n], RSub(RInt(1), lambda_k))

\* TaskResult with "condition1 and condition2" as the task's verdict
TaskResultBothConditions(ts, m, task_params) ==
    LET runtime == task_params.runtime[1]
        deadline == GetDeadline(task_params)[1]
        lambda_k == Rat(runtime, deadline)
        inner == InnerLoop(ts, 1, [beta_sum |-> RInt(0), beta_details |-> <<>>],
                           task_params.name, lambda_k, deadline)
        beta_sum == inner.beta_sum
        bound == RMul(RInt(m), RSub(RInt(1), lambda_k))
        condition1 == RLess(beta_sum, bound)
        condition2 == beta_sum = bound /\ AnyBeta(inner.beta_details, lambda_k)
    IN  [lambda_k |-> lambda_k,
         beta_sum |-> beta_sum,
         bound |-> bound,
         condition1 |-> condition1,
         condition2 |-> condition2,
         is_schedulable |-> condition1 /\ condition2,
         beta_details |-> inner.beta_details]

\* the record stored for a task that is not skipped (lines 54-102)
TaskResult(ts, m, task_params) ==
    LET runtime == task_params.runtime[1]
        deadline == GetDeadline(task_params)[1]
        lambda_k == Rat(runtime, deadline)
        inner == InnerLoop(ts, 1, [beta_sum |-> RInt(0), beta_details |-> <<>>],
                           task_params.name, lambda_k, deadline)
        beta_sum == inner.beta_sum
        bound == RMul(RInt(m), RSub(RInt(1), lambda_k))
        condition1 == RLess(beta_sum, bound)
        condition2 == beta_sum = bound /\ AnyBeta(inner.beta_details, lambda_k)
    IN  [lambda_k |-> lambda_k,
         beta_sum |-> beta_sum,
         bound |-> bound,
         condition1 |-> condition1,
         condition2 |-> condition2,
         is_schedulable |-> condition1 \/ condition2,
         beta_details |-> inner.beta_details]

\* OuterBody with "all_schedulable = is_task_schedulable": the last task decides
OuterBodyLastWins(st, ts, m, task_params) ==
    IF BCLSkips(task_params) THEN st
    ELSE LET r == TaskResult(ts, m, task_params)
         IN  [task_results |-> (task_params.name :> r) @@ st.task_results,
              all_schedulable |-> r.is_schedulable]

\* OuterBody giving up at the first task that is not schedulable
OuterBodyStopAtFailure(st, ts, m, task_params) ==
    IF BCLSkips(task_params) \/ ~st.all_schedulable THEN st
    ELSE LET r == TaskResult(ts, m, task_params)
         IN  [task_results |-> (task_params.name :> r) @@ st.task_results,
              all_schedulable |-> IF ~r.is_schedulable THEN FALSE
                                  ELSE st.all_schedulable]

\* one iteration of the outer loop: st = [task_results, all_schedulable]
OuterBody(st, ts, m, task_params) ==
    IF BCLSkips(task_params) THEN st
    ELSE LET r == TaskResult(ts, m, task_params)
         IN  [task_results |-> (task_params.name :> r) @@ st.task_results,
              all_schedulable |-> IF ~r.is_schedulable THEN FALSE
                                  ELSE st.all_schedulable]

(* -------------------- check_gfb_schedulability ------------------------ *)
Msg(kind, name) == [kind |-> kind, name |-> name]

\* the tests of the utilization loop (lines 160-169): which line is printed
GFBLoopKind(params) ==
    IF params.runtime = Missing \/ params.period = Missing THEN "WarnMissing"
    ELSE IF params.period[1] = 0 THEN "WarnZeroPeriod"
    ELSE "Utilization"

\* Utilization with the quotient upside down
UtilizationInverse(params) == Rat(params.period[1], params.runtime[1])

\* utilization = runtime / period
Utilization(params) == Rat(params.runtime[1], params.period[1])

\* GFBLoopBody counting a task with a zero period as utilization 0
GFBLoopBodyZero(us, params) ==
    IF GFBLoopKind(params) = "Utilization" THEN Append(us, Utilization(params))
    ELSE IF GFBLoopKind(params) = "WarnZeroPeriod" THEN Append(us, RInt(0))
    ELSE us

\* one iteration of the utilization loop on the list task_utilizations
GFBLoopBody(us, params) ==
    IF GFBLoopKind(params) = "Utilization" THEN Append(us, Utilization(params))
    ELSE us

RECURSIVE Sum(_)
Sum(us) == IF us = <<>> THEN RInt(0) ELSE RAdd(us[1], Sum(Tail(us)))

RECURSIVE Max(_)
Max(us) == IF Len(us) = 1 THEN us[1] ELSE RMax(us[1], Max(Tail(us)))

\* SchedulabilityBound with the sign of the second term flipped
SchedulabilityBoundPlus(m, max_utilization) ==
    RAdd(RInt(m), RMul(RInt(m - 1), max_utilization))

\* schedulability_bound = num_cpus - (num_cpus - 1) * max_utilization
SchedulabilityBound(m, max_utilization) ==
    RSub(RInt(m), RMul(RInt(m - 1), max_utilization))

\* GFBFigures with "total_utilization < schedulability_bound"
GFBFiguresStrict(us, m) ==
    LET total_utilization == Sum(us)
        max_utilization == Max(us)
        schedulability_bound == SchedulabilityBound(m, max_utilization)
    IN  [computed |-> TRUE,
         total |-> total_utilization,
         max |-> max_utilization,
         bound |-> schedulability_bound,
         schedulable |-> RLess(total_utilization, schedulability_bound)]

\* the figures of the GFB test (lines 180-191)
GFBFigures(us, m) ==
    LET total_utilization == Sum(us)
        max_utilization == Max(us)
        schedulability_bound == SchedulabilityBound(m, max_utilization)
    IN  [computed |-> TRUE,
         total |-> total_utilization,
         max |-> max_utilization,
         bound |-> schedulability_bound,
         schedulable |-> RLeq(total_utilization, schedulability_bound)]

NoFigures ==
    [computed |-> FALSE, total |-> RInt(0), max |-> RInt(0), bound |-> RInt(0),
     schedulable |-> FALSE]

\* CombinedKind with "or" in its first test
CombinedKindOr(is_gfb_schedulable, is_bcl_schedulable) ==
    IF is_gfb_schedulable \/ is_bcl_schedulable THEN "CombinedBoth"
    ELSE IF is_gfb_schedulable THEN "CombinedGFBOnly"
    ELSE IF is_bcl_schedulable THEN "CombinedBCLOnly"
    ELSE "CombinedNotSchedulable"

\* the line of the combined analysis (lines 222-230)
CombinedKind(is_gfb_schedulable, is_bcl_schedulable) ==
    IF is_gfb_schedulable /\ is_bcl_schedulable THEN "CombinedBoth"
    ELSE IF is_gfb_schedulable THEN "CombinedGFBOnly"
    ELSE IF is_bcl_schedulable THEN "CombinedBCLOnly"
    ELSE "CombinedNotSchedulable"

\* the per-task lines printed for the BCL results, in dictionary order
RECURSIVE BCLLines(_, _, _)
BCLLines(ts, j, results) ==
    IF j > Len(ts) THEN <<>>
    ELSE IF ts[j].name \in DOMAIN results
         THEN <<Msg("BCLTask", ts[j].name)>> \o BCLLines(ts, j + 1, results)
         ELSE BCLLines(ts, j + 1, results)

(* ----------------- the analysis of a whole dictionary ----------------- *)
\* the utilization loop (lines 158-173) from its j-th iteration on
RECURSIVE UtilizationLoop(_, _, _)
UtilizationLoop(ts, j, us) ==
    IF j > Len(ts) THEN us
    ELSE UtilizationLoop(ts, j + 1, GFBLoopBody(us, ts[j]))

\* the outer loop of check_bcl_schedulability from its j-th iteration on
RECURSIVE OuterLoop(_, _, _, _)
OuterLoop(ts, j, st, m) ==
    IF j > Len(ts) THEN st
    ELSE OuterLoop(ts, j + 1, OuterBody(st, ts, m, ts[j]), m)

\* the GFB figures and the BCL results of the dictionary ts on m CPUs
Report(ts, m) ==
    LET us == UtilizationLoop(ts, 1, <<>>)
        st == OuterLoop(ts, 1, [task_results |-> <<>>, all_schedulable |-> TRUE], m)
    IN  IF ts = <<>> \/ m = 0 \/ us = <<>>
        THEN [gfb |-> NoFigures, results |-> <<>>]
        ELSE [gfb |-> GFBFigures(us, m), results |-> st.task_results]

\* the same with the number of CPUs taken from the first task of ts
Analysis(ts) == Report(ts, IF ts = <<>> THEN 0 ELSE ts[1].cpus)

(* ------------------------------ states -------------------------------- *)
\* the file is missing, is not JSON, or holds a dictionary of at most n tasks
InitFile(n, cpus) ==
    \/ taskset_file = [state |-> "missing", tasks |-> <<>>]
    \/ taskset_file = [state |-> "invalid_json", tasks |-> <<>>]
    \/ \E c \in 0..n : \E f \in [1..c -> Fields(cpus)] :
          taskset_file = [state |-> "ok", tasks |-> TaskDict(f, c)]

InitRest ==
    /\ pc = "start"
    /\ tasks = <<>>
    /\ num_cpus = 0
    /\ i = 1
    /\ task_utilizations = <<>>
    /\ gfb = NoFigures
    /\ k = 1
    /\ task_results = <<>>
    /\ all_schedulable = TRUE
    /\ bcl = [returned |-> FALSE, is_schedulable |-> FALSE, results |-> <<>>]
    /\ out = <<>>
    /\ pending = {}

\* every task of the file carries the same cpus list (global scheduling:
\* all tasks can run on any CPU)
Init ==
    /\ \E c \in 0..MaxCpus : InitFile(MaxTasks, {c})
    /\ InitRest

\* the tasks of the file carry cpus lists of any lengths
InitAffinity ==
    /\ InitFile(MaxAffinityTasks, 0..MaxCpus)
    /\ InitRest

\* the file holds periods and deadlines of either sign
InitSigned ==
    /\ \E m \in 0..MaxCpus : \E c \in 0..MaxSignedTasks :
          \E f \in [1..c -> [runtime : Opt(1..MaxRuntime),
                             period : Opt((0 - MaxNegative)..MaxPeriod),
                             deadline : Opt((0 - MaxNegative)..MaxDeadline),
                             cpus : {m}]] :
             taskset_file = [state |-> "ok", tasks |-> TaskDict(f, c)]
    /\ InitRest

\* the file holds tasks of the scenarios of the specification: runtime 1000
\* or 3000, period 10000, deadline 10000 or none, on four CPUs
InitScenario ==
    /\ \E c \in 1..MaxScenarioTasks :
          \E f \in [1..c -> [runtime : {<<1000>>, <<3000>>},
                             period : {<<10000>>},
                             deadline : {Missing, <<10000>>},
                             cpus : {4}]] :
             taskset_file = [state |-> "ok", tasks |-> TaskDict(f, c)]
    /\ InitRest

\* a file for the sharded outer loop: the number of CPUs is known
InitWorkers ==
    /\ \E c \in 1..MaxCpus : InitFile(MaxWorkerTasks, {c})
    /\ InitRest

\* lines 127-141: open and parse the file, fetch its "tasks"
OpenFile ==
    /\ pc = "start"
    /\ IF taskset_file.state = "missing"
       THEN /\ out' = Append(out, Msg("ErrNotFound", 0))
            /\ pc' = "done"
            /\ tasks' = tasks
       ELSE IF taskset_file.state = "invalid_json"
       THEN /\ out' = Append(out, Msg("ErrInvalidJSON", 0))
            /\ pc' = "done"
            /\ tasks' = tasks
       ELSE IF taskset_file.tasks = <<>>
       THEN /\ out' = Append(out, Msg("NoTasks", 0))
            /\ pc' = "done"
            /\ tasks' = taskset_file.tasks
       ELSE /\ out' = out
            /\ pc' = "cpus"
            /\ tasks' = taskset_file.tasks
    /\ UNCHANGED <<pending, taskset_file, num_cpus, i, task_utilizations, gfb, k,
                   task_results, all_schedulable, bcl>>

\* DetermineCpus without the test "num_cpus == 0"
DetermineCpusNoCheck ==
    /\ pc = "cpus"
    /\ num_cpus' = tasks[1].cpus
    /\ out' = Append(out, Msg("Header", 0))
    /\ pc' = "gfb_loop"
    /\ i' = 1
    /\ task_utilizations' = <<>>
    /\ UNCHANGED <<pending, taskset_file, tasks, gfb, k, task_results, all_schedulable, bcl>>

\* lines 147-156: the number of CPUs is the length of the first task's cpus
DetermineCpus ==
    /\ pc = "cpus"
    /\ num_cpus' = tasks[1].cpus
    /\ IF num_cpus' = 0
       THEN /\ out' = Append(out, Msg("ErrNoCpus", 0))
            /\ pc' = "done"
       ELSE /\ out' = Append(out, Msg("Header", 0))
            /\ pc' = "gfb_loop"
    /\ i' = 1
    /\ task_utilizations' = <<>>
    /\ UNCHANGED <<pending, taskset_file, tasks, gfb, k, task_results, all_schedulable, bcl>>

\* lines 158-173: one iteration of the utilization loop
GFBLoop ==
    /\ pc = "gfb_loop"
    /\ i <= Len(tasks)
    /\ out' = Append(out, Msg(GFBLoopKind(tasks[i]), tasks[i].name))
    /\ task_utilizations' = GFBLoopBody(task_utilizations, tasks[i])
    /\ i' = i + 1
    /\ UNCHANGED <<pending, taskset_file, pc, tasks, num_cpus, gfb, k, task_results,
                   all_schedulable, bcl>>

\* lines 175-197: the GFB test, then the call of check_bcl_schedulability
GFBTest ==
    /\ pc = "gfb_loop"
    /\ i > Len(tasks)
    /\ IF task_utilizations = <<>>
       THEN /\ out' = Append(out, Msg("NoValidTasks", 0))
            /\ pc' = "done"
            /\ gfb' = gfb
       ELSE /\ gfb' = GFBFigures(task_utilizations, num_cpus)
            /\ out' = Append(out, Msg(IF gfb'.schedulable THEN "GFBSchedulable"
                                      ELSE "GFBNotSchedulable", 0))
            /\ pc' = "bcl"
    /\ k' = 1
    /\ task_results' = <<>>
    /\ all_schedulable' = TRUE
    /\ UNCHANGED <<pending, taskset_file, tasks, num_cpus, i, task_utilizations, bcl>>

\* BCLOuter storing the default deadline in the task it evaluates
\* (task_params.setdefault("dl-deadline", period))
BCLOuterSetDefault ==
    /\ pc = "bcl"
    /\ k <= Len(tasks)
    /\ LET st == OuterBody([task_results |-> task_results,
                            all_schedulable |-> all_schedulable],
                           tasks, num_cpus, tasks[k])
       IN  /\ task_results' = st.task_results
           /\ all_schedulable' = st.all_schedulable
    /\ tasks' = [tasks EXCEPT ![k].deadline = GetDeadline(tasks[k])]
    /\ k' = k + 1
    /\ UNCHANGED <<pending, taskset_file, pc, num_cpus, i, task_utilizations, gfb, bcl, out>>

\* lines 43-105: one iteration of the outer loop of check_bcl_schedulability
BCLOuter ==
    /\ pc = "bcl"
    /\ k <= Len(tasks)
    /\ LET st == OuterBody([task_results |-> task_results,
                            all_schedulable |-> all_schedulable],
                           tasks, num_cpus, tasks[k])
       IN  /\ task_results' = st.task_results
           /\ all_schedulable' = st.all_schedulable
    /\ k' = k + 1
    /\ UNCHANGED <<pending, taskset_file, pc, tasks, num_cpus, i, task_utilizations, gfb,
                   bcl, out>>

\* lines 107 and 203-218: the return to the caller and the BCL report
BCLReturn ==
    /\ pc = "bcl"
    /\ k > Len(tasks)
    /\ bcl' = [returned |-> TRUE, is_schedulable |-> all_schedulable,
               results |-> task_results]
    /\ out' = out \o BCLLines(tasks, 1, task_results)
                  \o <<Msg(IF all_schedulable THEN "BCLSchedulable"
                           ELSE "BCLNotSchedulable", 0)>>
    /\ pc' = "combined"
    /\ UNCHANGED <<pending, taskset_file, tasks, num_cpus, i, task_utilizations, gfb, k,
                   task_results, all_schedulable>>

\* lines 220-230: the combined analysis
Combined ==
    /\ pc = "combined"
    /\ out' = Append(out, Msg(CombinedKind(gfb.schedulable, bcl.is_schedulable), 0))
    /\ pc' = "done"
    /\ UNCHANGED <<pending, taskset_file, tasks, num_cpus, i, task_utilizations, gfb, k,
                   task_results, all_schedulable, bcl>>

(* --------- the outer loop of check_bcl_schedulability, sharded -------- *)
\* the iterations of the outer loop are handed out to workers
Shard ==
    /\ pc = "bcl"
    /\ pc' = "workers"
    /\ pending' = 1..Len(tasks)
    /\ UNCHANGED <<taskset_file, tasks, num_cpus, i, task_utilizations, gfb, k,
                   task_results, all_schedulable, bcl, out>>

\* a worker runs the body of the outer loop for any task not yet taken, on
\* an accumulator of its own, and writes the entry of that task only
Worker ==
    /\ pc = "workers"
    /\ \E n \in pending :
          LET own == OuterBody([task_results |-> <<>>, all_schedulable |-> TRUE],
                               tasks, num_cpus, tasks[n])
          IN  /\ task_results' = own.task_results @@ task_results
              /\ pending' = pending \ {n}
    /\ UNCHANGED <<taskset_file, pc, tasks, num_cpus, i, task_utilizations, gfb, k,
                   all_schedulable, bcl, out>>

\* the final merge: the per-task map and the verdict over its entries
Merge ==
    /\ pc = "workers"
    /\ pending = {}
    /\ all_schedulable' = \A n \in DOMAIN task_results : task_results[n].is_schedulable
    /\ bcl' = [returned |-> TRUE, is_schedulable |-> all_schedulable',
               results |-> task_results]
    /\ out' = out \o BCLLines(tasks, 1, task_results)
                  \o <<Msg(IF all_schedulable' THEN "BCLSchedulable"
                           ELSE "BCLNotSchedulable", 0)>>
    /\ pc' = "combined"
    /\ UNCHANGED <<pending, taskset_file, tasks, num_cpus, i, task_utilizations, gfb,
                   k, task_results>>

NextWorkers ==
    \/ OpenFile
    \/ DetermineCpus
    \/ GFBLoop
    \/ GFBTest
    \/ Shard
    \/ Worker
    \/ Merge
    \/ Combined

Next ==
    \/ OpenFile
    \/ DetermineCpus
    \/ GFBLoop
    \/ GFBTest
    \/ BCLOuter
    \/ BCLReturn
    \/ Combined

Spec == Init /\ [][Next]_vars

SpecAffinity == InitAffinity /\ [][Next]_vars

SpecSigned == InitSigned /\ [][Next]_vars

SpecScenario == InitScenario /\ [][Next]_vars

SpecWorkers == InitWorkers /\ [][NextWorkers]_vars


(* ------------------------- reading the output ------------------------- *)
Lines(kinds) == SelectSeq(out, LAMBDA l : l.kind \in kinds)

Printed(kind, name) == \E j \in 1..Len(out) : out[j] = Msg(kind, name)

CombinedKinds ==
    {"CombinedBoth", "CombinedGFBOnly", "CombinedBCLOnly", "CombinedNotSchedulable"}

\* the run went through both tests and printed its combined analysis
Analysed == pc = "done" /\ bcl.returned

(* ------------------------------- C1 ----------------------------------- *)
\* C1: once both tests have run, exactly one combined line is printed: BOTH
\* iff GFB and BCL pass, GFB only iff GFB passes and BCL fails, BCL only iff
\* BCL passes and GFB fails; the line says SCHEDULABLE iff one of them passes.
C1_Classification ==
    Analysed =>
        LET g == Printed("GFBSchedulable", 0)
            b == Printed("BCLSchedulable", 0)
            c == Lines(CombinedKinds)
        IN  /\ Len(c) = 1
            /\ g = gfb.schedulable
            /\ b = bcl.is_schedulable
            /\ (c[1].kind = "CombinedBoth") = (g /\ b)
            /\ (c[1].kind = "CombinedGFBOnly") = (g /\ ~b)
            /\ (c[1].kind = "CombinedBCLOnly") = (b /\ ~g)
            /\ (c[1].kind # "CombinedNotSchedulable") = (g \/ b)

\* a run where GFB passes and BCL fails, reported as GFB only
C1_Witness ==
    /\ Analysed
    /\ gfb.schedulable
    /\ ~bcl.is_schedulable
    /\ Printed("CombinedGFBOnly", 0)

(* ------------------------------- C2 ----------------------------------- *)
\* C2: when neither test passes the combined line says "inconclusive", and
\* no run prints that the taskset IS NOT SCHEDULABLE as its combined result.
C2_NeverNotSchedulable ==
    /\ ~Printed("CombinedNotSchedulable", 0)
    /\ (Analysed /\ ~gfb.schedulable /\ ~bcl.is_schedulable)
           => Printed("CombinedInconclusive", 0)

(* ------------------------------- C3 ----------------------------------- *)
\* C3: if GFB fails (total > bound) and every task that BCL evaluated meets
\* condition1 (beta_sum < bound), the combined line is BCL only, and it is
\* not the NOT SCHEDULABLE line.
C3_BCLOnly ==
    (/\ Analysed
     /\ RLess(gfb.bound, gfb.total)
     /\ \A n \in DOMAIN bcl.results :
            RLess(bcl.results[n].beta_sum, bcl.results[n].bound))
    => /\ Printed("CombinedBCLOnly", 0)
       /\ ~Printed("CombinedNotSchedulable", 0)

\* two tasks in excess of the GFB bound that both meet condition1
C3_Witness ==
    /\ Analysed
    /\ RLess(gfb.bound, gfb.total)
    /\ Cardinality(DOMAIN bcl.results) >= 2
    /\ \A n \in DOMAIN bcl.results :
           RLess(bcl.results[n].beta_sum, bcl.results[n].bound)
    /\ Printed("CombinedBCLOnly", 0)

(* ------------------------------- C4 ----------------------------------- *)
\* C4: a task is marked schedulable iff beta_sum < bound, or beta_sum = bound
\* and some other task has 0 < beta_i <= 1 - lambda_k; the verdict returned
\* is true iff every task of the returned map is marked schedulable.
C4_Conditions ==
    /\ \A n \in DOMAIN task_results :
           LET r == task_results[n]
               c1 == RLess(r.beta_sum, r.bound)
               c2 == /\ r.beta_sum = r.bound
                     /\ \E o \in DOMAIN r.beta_details \ {n} :
                            /\ RLess(RInt(0), r.beta_details[o])
                            /\ RLeq(r.beta_details[o], RSub(RInt(1), r.lambda_k))
           IN  /\ r.condition1 = c1
               /\ r.condition2 = c2
               /\ r.is_schedulable = (c1 \/ c2)
    /\ bcl.returned =>
           bcl.is_schedulable =
               (\A n \in DOMAIN bcl.results : bcl.results[n].is_schedulable)

\* a returned map with a task that passes by condition2 only and one that fails
C4_Witness ==
    /\ bcl.returned
    /\ \E n \in DOMAIN bcl.results :
           ~bcl.results[n].condition1 /\ bcl.results[n].condition2
    /\ \E n \in DOMAIN bcl.results : ~bcl.results[n].is_schedulable
    /\ ~bcl.is_schedulable

(* ------------------------------- C5 ----------------------------------- *)
\* the deadline of a task with a period: its dl-deadline, else its period
DeadlineOf(t) == IF t.deadline = Missing THEN t.period[1] ELSE t.deadline[1]

\* a task the analysis is to keep: runtime and period present, and neither
\* the period nor the deadline zero
ValidTask(t) ==
    /\ t.runtime # Missing
    /\ t.period # Missing
    /\ t.period[1] # 0
    /\ DeadlineOf(t) # 0

ValidNames == {n \in 1..Len(tasks) : ValidTask(tasks[n])}

\* Dk * beta_i for the task o in the window of task n
BetaNum(n, o) ==
    LET Dk == DeadlineOf(tasks[n])
        Ti == tasks[o].period[1]
        Ci == tasks[o].runtime[1]
        Ni == CHOOSE q \in 0..Dk : q * Ti <= Dk /\ Dk < (q + 1) * Ti
        remainder == IF Dk - Ni * Ti > 0 THEN Dk - Ni * Ti ELSE 0
    IN  Ni * Ci + (IF Ci < remainder THEN Ci ELSE remainder)

\* Dk * min(beta_i, 1 - lambda_k)
CappedNum(n, o) ==
    LET slack == DeadlineOf(tasks[n]) - tasks[n].runtime[1]
    IN  IF BetaNum(n, o) < slack THEN BetaNum(n, o) ELSE slack

RECURSIVE SumOver(_, _)
SumOver(S, n) ==
    IF S = {} THEN 0
    ELSE LET o == CHOOSE x \in S : TRUE
         IN  CappedNum(n, o) + SumOver(S \ {o}, n)

\* C5: for every task k with a result, lambda_k = C_k / D_k, bound =
\* m * (1 - lambda_k), the recorded beta_i of every other valid task i is
\* (N_i * C_i + min(C_i, max(0, D_k - N_i * T_i))) / D_k with N_i =
\* floor(D_k / T_i), and beta_sum is the sum of min(beta_i, 1 - lambda_k)
\* over exactly the other valid tasks.
C5_BetaSum ==
    \A n \in DOMAIN task_results :
        LET r == task_results[n]
            Dk == DeadlineOf(tasks[n])
            Ck == tasks[n].runtime[1]
            others == ValidNames \ {n}
        IN  /\ r.lambda_k[1] * Dk = Ck * r.lambda_k[2]
            /\ r.bound[1] * Dk = num_cpus * (Dk - Ck) * r.bound[2]
            /\ DOMAIN r.beta_details = others
            /\ \A o \in others :
                   r.beta_details[o][1] * Dk = BetaNum(n, o) * r.beta_details[o][2]
            /\ r.beta_sum[1] * Dk = SumOver(others, n) * r.beta_sum[2]

\* a task with two interfering tasks, one contribution capped at 1 - lambda_k
\* and one not, the recorded sum being non-zero
C5_Witness ==
    \E n \in DOMAIN task_results :
        LET r == task_results[n]
            cap == RSub(RInt(1), r.lambda_k)
        IN  /\ Cardinality(DOMAIN r.beta_details) = 2
            /\ \E o \in DOMAIN r.beta_details : RLess(cap, r.beta_details[o])
            /\ \E o \in DOMAIN r.beta_details : RLeq(r.beta_details[o], cap)
            /\ RLess(RInt(0), r.beta_sum)

(* ------------------------------- C6 ----------------------------------- *)
RECURSIVE SumDetails(_, _, _)
SumDetails(S, details, cap) ==
    IF S = {} THEN RInt(0)
    ELSE LET o == CHOOSE x \in S : TRUE
         IN  RAdd(RMin(details[o], cap), SumDetails(S \ {o}, details, cap))

\* C6: the beta details recorded for a task never hold an entry for the task
\* itself, and its beta_sum is made of the entries of the other tasks only.
C6_SelfExclusion ==
    \A n \in DOMAIN task_results :
        LET r == task_results[n]
        IN  /\ n \notin DOMAIN r.beta_details
            /\ r.beta_sum = SumDetails(DOMAIN r.beta_details \ {n}, r.beta_details,
                                       RSub(RInt(1), r.lambda_k))

\* three valid tasks, each with the two others in its details
C6_Witness ==
    /\ Cardinality(DOMAIN task_results) = 3
    /\ \A n \in DOMAIN task_results :
           DOMAIN task_results[n].beta_details = DOMAIN task_results \ {n}

(* ------------------------------- C7 ----------------------------------- *)
\* the tasks the utilization loop keeps: runtime and period present, period # 0
Counted ==
    {n \in 1..Len(tasks) :
        tasks[n].runtime # Missing /\ tasks[n].period # Missing /\ tasks[n].period[1] # 0}

RECURSIVE Product(_)
Product(S) ==
    IF S = {} THEN 1
    ELSE LET o == CHOOSE x \in S : TRUE IN tasks[o].period[1] * Product(S \ {o})

\* the sum of runtime / period over S, times Product(Counted)
RECURSIVE TotalNum(_)
TotalNum(S) ==
    IF S = {} THEN 0
    ELSE LET o == CHOOSE x \in S : TRUE
         IN  (tasks[o].runtime[1] * Product(Counted)) \div tasks[o].period[1]
             + TotalNum(S \ {o})

DeadlineIsPeriod ==
    \A n \in 1..Len(tasks) :
        tasks[n].deadline = Missing \/ tasks[n].deadline = tasks[n].period

Utilizations == {Rat(c, t) : c \in 1..MaxRuntime, t \in 1..MaxPeriod}

\* C8: with m > 1 CPUs, a taskset whose maximum utilization is at most that
\* of the analysed one has a bound at least as large, and one whose maximum
\* is at least as large has a bound at most as large.
C8_Monotone ==
    (gfb.computed /\ num_cpus > 1) =>
        \A u \in Utilizations :
            /\ RLeq(u, gfb.max) => RLeq(gfb.bound, SchedulabilityBound(num_cpus, u))
            /\ RLeq(gfb.max, u) => RLeq(SchedulabilityBound(num_cpus, u), gfb.bound)

\* m = 2 and a smaller maximum utilization with a strictly larger bound
C8_Witness ==
    /\ gfb.computed
    /\ num_cpus > 1
    /\ \E u \in Utilizations :
           /\ RLess(u, gfb.max)
           /\ RLess(gfb.bound, SchedulabilityBound(num_cpus, u))

(* ------------------------------- C9 ----------------------------------- *)
\* C9: a task that is not valid (missing runtime or period, zero period or
\* zero deadline) gets a warning and is in neither the GFB sums nor any BCL
\* result, as task under test or as interfering task; GFB and BCL work on
\* the same tasks.
C9_SameValidTasks ==
    Analysed =>
        /\ \A n \in 1..Len(tasks) :
               ~ValidTask(tasks[n]) =>
                   /\ Printed("WarnMissing", n) \/ Printed("WarnZeroPeriod", n)
                   /\ ~Printed("Utilization", n)
                   /\ n \notin DOMAIN bcl.results
                   /\ \A o \in DOMAIN bcl.results :
                          n \notin DOMAIN bcl.results[o].beta_details
        /\ {n \in 1..Len(tasks) : Printed("Utilization", n)} = DOMAIN bcl.results

(* ------------------------------- C10 ---------------------------------- *)
Remove(ts, j) == SubSeq(ts, 1, j - 1) \o SubSeq(ts, j + 1, Len(ts))

\* C10 as stated: the figures and results of a finished run equal those of
\* the analysis of the file without any one task whose period is 0, the
\* number of CPUs included.
C10_AsStated ==
    pc = "done" =>
        \A j \in 1..Len(tasks) :
            tasks[j].period = <<0>> =>
                /\ gfb = Analysis(Remove(tasks, j)).gfb
                /\ bcl.results = Analysis(Remove(tasks, j)).results

\* C10: the figures and results of a finished run equal those of the
\* analysis, on the same number of CPUs, of the file without any one task
\* whose period is 0; the number of CPUs is the length of the cpus list of
\* the first task of the file, whatever its period.
C10_SameCpus ==
    pc = "done" =>
        \A j \in 1..Len(tasks) :
            tasks[j].period = <<0>> =>
                /\ num_cpus = tasks[1].cpus
                /\ gfb = Report(Remove(tasks, j), num_cpus).gfb
                /\ bcl.results = Report(Remove(tasks, j), num_cpus).results

\* a finished analysis of a file whose first task has period 0 and whose
\* second task has a cpus list of another length
C10_Witness ==
    /\ Analysed
    /\ Len(tasks) = 2
    /\ tasks[1].period = <<0>>
    /\ tasks[1].runtime # Missing
    /\ tasks[1].cpus # tasks[2].cpus
    /\ DOMAIN bcl.results = {2}

(* ------------------------------- C11 ---------------------------------- *)
\* the task n takes part in the analysis: it has a utilization line, or a
\* BCL result, or a beta in the result of another task
TakesPart(n) ==
    \/ Printed("Utilization", n)
    \/ n \in DOMAIN task_results
    \/ \E o \in DOMAIN task_results : n \in DOMAIN task_results[o].beta_details

\* C11: every task that takes part in the analysis has a strictly positive
\* runtime, period and deadline: a task with a zero or negative period or
\* deadline is in neither the GFB sums nor the BCL evaluation.
C11_StrictlyPositive ==
    \A n \in 1..Len(tasks) :
        TakesPart(n) =>
            /\ tasks[n].runtime[1] > 0
            /\ tasks[n].period[1] > 0
            /\ DeadlineOf(tasks[n]) > 0

(* ------------------------------- C12 ---------------------------------- *)
\* C12: when the number of CPUs is known and no task of the file is valid,
\* the run ends with the line "No valid tasks were found": no GFB verdict,
\* no BCL verdict and no combined verdict is printed.
C12_EmptyTasksetAborts ==
    (pc = "done" /\ tasks # <<>> /\ num_cpus > 0 /\ ValidNames = {}) =>
        /\ Printed("NoValidTasks", 0)
        /\ ~gfb.computed
        /\ ~bcl.returned
        /\ Lines({"GFBSchedulable", "GFBNotSchedulable", "BCLSchedulable",
                  "BCLNotSchedulable"} \cup CombinedKinds) = <<>>

(* ------------------------------- C13 ---------------------------------- *)
\* C13: if the first task has no cpus the run ends at once with the error
\* on the number of CPUs and neither test runs or reports anything; whenever
\* a test runs or has reported, the number of CPUs is at least 1.
C13_NoCpus ==
    /\ (pc \notin {"start", "cpus"} /\ tasks # <<>> /\ tasks[1].cpus = 0) =>
           /\ pc = "done"
           /\ out = <<Msg("ErrNoCpus", 0)>>
           /\ ~gfb.computed
           /\ ~bcl.returned
           /\ task_utilizations = <<>>
           /\ task_results = <<>>
    /\ (pc \in {"gfb_loop", "bcl", "combined"} \/ gfb.computed \/ bcl.returned) =>
           num_cpus >= 1

\* a file with a valid task that is not analysed for want of a cpus list
C13_Witness ==
    /\ pc = "done"
    /\ Printed("ErrNoCpus", 0)
    /\ ValidNames # {}
    /\ tasks[1].cpus = 0

(* ------------------------------- C14 ---------------------------------- *)
\* C14: the analyzers leave the taskset as it was loaded, and the figures and
\* results of the run are those that a second run of the GFB computation and
\* of check_bcl_schedulability gives on the taskset of the file with the
\* same number of CPUs.
C14_Idempotent ==
    /\ (pc # "start" /\ taskset_file.state = "ok") => tasks = taskset_file.tasks
    /\ gfb.computed =>
           gfb = GFBFigures(UtilizationLoop(taskset_file.tasks, 1, <<>>), num_cpus)
    /\ bcl.returned =>
           LET again == OuterLoop(taskset_file.tasks, 1,
                                  [task_results |-> <<>>, all_schedulable |-> TRUE],
                                  num_cpus)
           IN  /\ bcl.results = again.task_results
               /\ bcl.is_schedulable = again.all_schedulable

\* a finished analysis of three evaluated tasks, one without dl-deadline
C14_Witness ==
    /\ Analysed
    /\ Cardinality(DOMAIN bcl.results) = 3
    /\ \E n \in 1..Len(tasks) : tasks[n].deadline = Missing
    /\ \E n \in 1..Len(tasks) : tasks[n].deadline # Missing

(* ------------------------------- C15 ---------------------------------- *)
ScenarioA ==
    taskset_file.tasks =
        <<[name |-> 1, runtime |-> <<1000>>, period |-> <<10000>>,
           deadline |-> <<10000>>, cpus |-> 4]>>

\* C15: for the single task {runtime 1000, period 10000, deadline 10000} on
\* 4 CPUs, GFB gives total 0.1, max 0.1, bound 3.7, schedulable, and BCL
\* gives lambda_k 0.1, beta_sum 0 with no beta details, bound 3.6,
\* condition1 true and schedulable.
C15_ScenarioA ==
    (ScenarioA /\ pc = "done") =>
        /\ num_cpus = 4
        /\ gfb = [computed |-> TRUE, total |-> <<1, 10>>, max |-> <<1, 10>>,
                  bound |-> <<37, 10>>, schedulable |-> TRUE]
        /\ bcl.returned
        /\ DOMAIN bcl.results = {1}
        /\ bcl.results[1].lambda_k = <<1, 10>>
        /\ bcl.results[1].beta_sum = <<0, 1>>
        /\ DOMAIN bcl.results[1].beta_details = {}
        /\ bcl.results[1].bound = <<18, 5>>
        /\ bcl.results[1].condition1
        /\ bcl.results[1].is_schedulable
        /\ bcl.is_schedulable

\* the finished run of scenario A
C15_Witness ==
    /\ ScenarioA
    /\ pc = "done"
    /\ Printed("CombinedBoth", 0)

(* ------------------------------- C16 ---------------------------------- *)
\* the result of the sequential outer loop on the taskset
Sequential ==
    OuterLoop(tasks, 1, [task_results |-> <<>>, all_schedulable |-> TRUE], num_cpus)

\* C16: whatever the order in which workers take the tasks of the outer
\* loop, every entry written is the entry the sequential loop stores for
\* that task, and after the merge the per-task map and the whole-taskset
\* verdict are those of the sequential loop.
C16_ShardedIsSequential ==
    pc \in {"workers", "combined", "done"} =>
        LET seq == Sequential
        IN  /\ pc = "workers" =>
                   \A n \in DOMAIN task_results :
                       /\ n \in DOMAIN seq.task_results
                       /\ task_results[n] = seq.task_results[n]
            /\ bcl.returned =>
                   /\ bcl.results = seq.task_results
                   /\ bcl.is_schedulable = seq.all_schedulable

\* the last two tasks were evaluated before the first, which is pending
C16_Witness ==
    /\ pc = "workers"
    /\ pending = {1}
    /\ DOMAIN task_results = {2, 3}
    /\ ~BCLSkips(tasks[1])
    /\ ~task_results[2].is_schedulable
    /\ task_results[3].is_schedulable

(* ------------------------------- C17 ---------------------------------- *)
\* the tasks that omit dl-deadline and state a dl-period
OmitsDeadline == {j \in 1..Len(tasks) : tasks[j].deadline = Missing /\ tasks[j].period # Missing}

\* the taskset in which task j states dl-deadline equal to its dl-period
WithStatedDeadline(j) == [tasks EXCEPT ![j].deadline = tasks[j].period]

\* C17: the BCL results of a taskset in which a task omits dl-deadline (the
\* per-task map, holding the entry of the task itself and of every task it
\* interferes with, and the verdict) are those of the taskset in which that
\* task states dl-deadline equal to its dl-period.
C17_DeadlineDefaultsToPeriod ==
    bcl.returned =>
        \A j \in OmitsDeadline :
            LET stated == OuterLoop(WithStatedDeadline(j), 1,
                                    [task_results |-> <<>>, all_schedulable |-> TRUE],
                                    num_cpus)
            IN  /\ bcl.results = stated.task_results
                /\ bcl.is_schedulable = stated.all_schedulable

\* a task without dl-deadline was evaluated and interferes with another task
C17_Witness ==
    /\ bcl.returned
    /\ \E j \in OmitsDeadline :
          /\ j \in DOMAIN bcl.results
          /\ \E o \in DOMAIN bcl.results :
                /\ o # j
                /\ j \in DOMAIN bcl.results[o].beta_details
                /\ RLess(RInt(0), bcl.results[o].beta_details[j])

(* ------------------------------- C18 ---------------------------------- *)
\* C18: a task whose runtime exceeds its relative deadline (lambda_k > 1) is
\* never marked schedulable by the BCL test, and a taskset holding such a
\* task is never reported as BCL-schedulable.
C18_OverrunNeverSchedulable ==
    /\ \A n \in DOMAIN task_results :
           RLess(RInt(1), task_results[n].lambda_k) => ~task_results[n].is_schedulable
    /\ bcl.returned =>
           \A n \in DOMAIN bcl.results :
               RLess(RInt(1), bcl.results[n].lambda_k) =>
                   /\ ~bcl.is_schedulable
                   /\ ~Printed("BCLSchedulable", 0)

(* ------------------------------- C19 ---------------------------------- *)
\* C19: the BCL verdict is positive only when at least one task was
\* evaluated: a returned all_schedulable = TRUE comes with a non-empty
\* per-task map, and the combined analysis reports "schedulable by BCL",
\* alone or with GFB, only when the map is non-empty.
C19_VerdictNeedsEvaluatedTask ==
    /\ (bcl.returned /\ bcl.is_schedulable) => DOMAIN bcl.results # {}
    /\ (Printed("CombinedBoth", 0) \/ Printed("CombinedBCLOnly", 0)) =>
           DOMAIN bcl.results # {}

====
